---- MODULE Spec2Model ----
(***************************************************************************)
(* Model of the game-counter bot (src/main.py, src/config.py): the day     *)
(* record store kept in vacation_history.json, the vacation question /     *)
(* reminder protocol, the daily post publisher, the boss access gate and   *)
(* the scheduler jobs.                                                     *)
(*                                                                         *)
(* Every coroutine is cut at its awaits: the code between two awaits is    *)
(* one action, and the result of the awaited Telegram call (ok or an       *)
(* exception) is the input of the action that resumes the coroutine.  A    *)
(* task that awaits a send holds the text being sent: that is how the      *)
(* messages to users are observed.  Log lines are not modelled.            *)
(*                                                                         *)
(* Encodings.  A Python str is a sequence of one-character strings.  An    *)
(* optional value (None or a value) is the empty sequence or a one-element *)
(* sequence.  A date is its day ordinal counted from 2025-11-01 = 1; its   *)
(* isoformat() key is the triple <<year, month, day>>.  A timestamp is     *)
(* the date part of datetime.now().                                        *)
(***************************************************************************)
EXTENDS Integers, Sequences, FiniteSets, TLC

VARIABLES
    today,          \* datetime.now().date(), as a day ordinal
    BOSS_CHAT_ID,   \* config.BOSS_CHAT_ID: optional str
    BOSS_USERNAME,  \* config.BOSS_USERNAME: str
    SEND_TIME,      \* config.SEND_TIME: str, "HH:MM"
    crons,          \* the cron jobs start_scheduler registered: id -> trigger
    file,           \* vacation_history.json: date key -> day record
    disk,           \* how a read of vacation_history.json ends
    raised,         \* the exception the last store function called directly
                    \* let escape: optional str
    cache,          \* vacation_status_cache: date -> bool
    jobs,           \* reminder jobs held by the scheduler
    pub,            \* the 'daily_game_message' job instance (check_and_send_message)
    ask,            \* the 'daily_vacation_question' job instance (ask_about_vacation)
    rem,            \* the task running send_vacation_reminder_if_needed
    upd,            \* the update being handled (handle_callback / handle_command)
    channel         \* messages delivered to CHANNEL_ID, in order

vars == <<today, BOSS_CHAT_ID, BOSS_USERNAME, SEND_TIME, raised, crons,
          file, disk, cache, jobs, pub, ask,
          rem, upd, channel>>

----------------------------------------------------------------------------
(* Bounds of the model *)

FirstDay == 29
LastDay == 30

Dates == FirstDay .. LastDay

(* Program constants *)

START_DATE == 11

----------------------------------------------------------------------------
(* Optional values and strings *)

None == <<>>

Some(x) == <<x>>

IsNone(o) == Len(o) = 0

Value(o) == o[1]

Digits == {"0", "1", "2", "3", "4", "5", "6", "7", "8", "9"}

DigitValue(c) ==
    CASE c = "0" -> 0 [] c = "1" -> 1 [] c = "2" -> 2 [] c = "3" -> 3
      [] c = "4" -> 4 [] c = "5" -> 5 [] c = "6" -> 6 [] c = "7" -> 7
      [] c = "8" -> 8 [] c = "9" -> 9

LowerChar(c) ==
    CASE c = "B" -> "b" [] c = "O" -> "o" [] c = "E" -> "e" [] c = "V" -> "v"
      [] OTHER -> c

lower(s) == [i \in 1..Len(s) |-> LowerChar(s[i])]

RECURSIVE DecimalValue(_)
DecimalValue(s) ==
    IF Len(s) = 0 THEN 0
    ELSE 10 * DecimalValue(SubSeq(s, 1, Len(s) - 1)) + DigitValue(s[Len(s)])

\* int(s): <<n>> for a decimal literal with an optional sign, None for ValueError
int(s) ==
    LET body == IF Len(s) > 0 /\ s[1] \in {"+", "-"} THEN Tail(s) ELSE s
    IN  IF Len(body) > 0 /\ \A i \in 1..Len(body) : body[i] \in Digits
        THEN Some(IF Len(s) > 0 /\ s[1] = "-" THEN 0 - DecimalValue(body)
                  ELSE DecimalValue(body))
        ELSE None

\* truth value of an optional str: None and "" are falsy
Truthy(o) == ~IsNone(o) /\ Len(Value(o)) > 0

----------------------------------------------------------------------------
(* Dates *)

DaysInMonth(y, m) ==
    CASE m \in {1, 3, 5, 7, 8, 10, 12} -> 31
      [] m \in {4, 6, 9, 11} -> 30
      [] m = 2 -> IF y % 4 = 0 /\ (y % 100 # 0 \/ y % 400 = 0) THEN 29 ELSE 28
      [] OTHER -> 0

\* date.isoformat(), for the ordinals of November and December 2025
_date_key(d) ==
    IF d <= DaysInMonth(2025, 11) THEN <<2025, 11, d>>
    ELSE <<2025, 12, d - DaysInMonth(2025, 11)>>

\* the ordinal of a valid date of November or December 2025
Ordinal(k) == IF k[2] = 11 THEN k[3] ELSE DaysInMonth(2025, 11) + k[3]

\* datetime.strptime(s, "%Y-%m-%d").date(): <<ordinal>>, None for ValueError
strptime(k) ==
    IF k[2] \in 1..12 /\ k[3] >= 1 /\ k[3] <= DaysInMonth(k[1], k[2])
    THEN Some(Ordinal(k))
    ELSE None

_calculate_day_number_for_date_zero_based(target_date) ==
    target_date - START_DATE

_calculate_day_number_for_date(target_date) == (target_date - START_DATE) + 1

----------------------------------------------------------------------------
(* Access control gate *)

\* is_boss_user with the username compared for being present only
is_boss_user_any_username(effective_user) ==
    IF IsNone(effective_user) THEN FALSE
    ELSE LET user == Value(effective_user)
             boss_id == IF Truthy(BOSS_CHAT_ID) THEN int(Value(BOSS_CHAT_ID)) ELSE None
         IN  \/ ~IsNone(boss_id) /\ user.id = Value(boss_id)
             \/ Truthy(user.username)

\* is_boss_user with the username compared letter for letter
is_boss_user_case_sensitive(effective_user) ==
    IF IsNone(effective_user) THEN FALSE
    ELSE LET user == Value(effective_user)
             boss_id == IF Truthy(BOSS_CHAT_ID) THEN int(Value(BOSS_CHAT_ID)) ELSE None
         IN  \/ ~IsNone(boss_id) /\ user.id = Value(boss_id)
             \/ /\ Truthy(user.username)
                /\ Value(user.username) = BOSS_USERNAME

\* update.effective_user is None or a user [id, username], username optional
is_boss_user(effective_user) ==
    IF IsNone(effective_user) THEN FALSE
    ELSE LET user == Value(effective_user)
             boss_id == IF Truthy(BOSS_CHAT_ID) THEN int(Value(BOSS_CHAT_ID)) ELSE None
         IN  \/ ~IsNone(boss_id) /\ user.id = Value(boss_id)
             \/ /\ Truthy(user.username)
                /\ lower(Value(user.username)) = lower(BOSS_USERNAME)

----------------------------------------------------------------------------
(* Day record store *)

DefaultRecord(key) ==
    [date |-> key, day_status |-> "null",
     question_sent |-> FALSE, question_sent_at |-> None,
     answered |-> FALSE, answered_at |-> None, answer_source |-> "null",
     message_sent |-> FALSE, message_sent_at |-> None]

Put(history, key, info) ==
    [k \in DOMAIN history \cup {key} |-> IF k = key THEN info ELSE history[k]]

\* VACATION_HISTORY_FILE.exists(), the first call of load_vacation_history and
\* outside its try block: the ways it ends.  Path.exists() returns False for a
\* path that is not there and re-raises the PermissionError of stat() for a
\* path it may not examine (the directory of the file cannot be searched);
\* from Python 3.14 on it returns False there as well.
ExistsOutcomes ==
    CASE disk = "missing" -> {"false"}
      [] disk = "no_access" -> {"raises", "false"}
      [] OTHER -> {"true"}

\* what load_vacation_history returns when it returns: {} when exists() is
\* False, the object in the file when it reads and parses as one, and {} when
\* open or json.load raises (caught) or the JSON is no object.  When exists()
\* raises, the exception leaves load_vacation_history and its caller.
load_vacation_history ==
    IF disk \in {"missing", "no_access"} THEN <<>>
    ELSE IF disk = "ok" THEN file
    ELSE <<>>

\* _ensure_day_record storing a fresh record whether or not one exists
_ensure_day_record_fresh(history, target_date) ==
    Put(history, _date_key(target_date), DefaultRecord(_date_key(target_date)))

\* the history with a record for target_date; info is history[_date_key(target_date)]
_ensure_day_record(history, target_date) ==
    LET key == _date_key(target_date)
    IN  IF key \in DOMAIN history THEN history
        ELSE Put(history, key, DefaultRecord(key))

\* the history set_day_status saves, now being the date of datetime.now()
set_day_status(history, target_date, is_vacation, source, now) ==
    LET key == _date_key(target_date)
        h == _ensure_day_record(history, target_date)
    IN  Put(h, key, [h[key] EXCEPT
            !.day_status = IF is_vacation THEN "vacation" ELSE "work",
            !.answer_source = source,
            !.answered = TRUE,
            !.answered_at = Some(now)])

\* the history mark_question_sent_for_date saves
mark_question_sent_for_date(history, target_date, now) ==
    LET key == _date_key(target_date)
        h == _ensure_day_record(history, target_date)
    IN  Put(h, key, [h[key] EXCEPT
            !.question_sent = TRUE,
            !.question_sent_at = IF IsNone(h[key].question_sent_at)
                                 THEN Some(now) ELSE h[key].question_sent_at])

\* the history mark_message_sent_for_date saves
mark_message_sent_for_date(history, target_date, now) ==
    LET key == _date_key(target_date)
        h == _ensure_day_record(history, target_date)
    IN  Put(h, key, [h[key] EXCEPT
            !.message_sent = TRUE,
            !.message_sent_at = Some(now)])

\* a cache that keeps the entry it has for target_date
CachePut_keeping_entry(c, target_date, is_vacation) ==
    [d \in DOMAIN c \cup {target_date} |->
        IF d = target_date /\ d \notin DOMAIN c THEN is_vacation ELSE c[d]]

\* the cache after vacation_status_cache[target_date] = is_vacation
CachePut(c, target_date, is_vacation) ==
    [d \in DOMAIN c \cup {target_date} |->
        IF d = target_date THEN is_vacation ELSE c[d]]

\* what get_vacation_status_for_date returns with cache c and the history a
\* load would return
get_vacation_status_for_date(c, history, target_date) ==
    IF target_date \in DOMAIN c THEN c[target_date]
    ELSE IF _date_key(target_date) \notin DOMAIN history THEN FALSE
    ELSE history[_date_key(target_date)].day_status = "vacation"

\* the cache get_vacation_status_for_date leaves: the value read from a record
\* is stored, the answers from the cache and for a missing record are not
CacheAfterGet(c, history, target_date) ==
    IF target_date \in DOMAIN c THEN c
    ELSE IF _date_key(target_date) \notin DOMAIN history THEN c
    ELSE CachePut(c, target_date,
                  history[_date_key(target_date)].day_status = "vacation")

----------------------------------------------------------------------------
(* Daily post publisher: the code of check_and_send_message before its await *)

\* check_and_send_message without its test of message_sent
PublishDecision_no_sent_test(history, d) ==
    LET info == _ensure_day_record(history, d)[_date_key(d)]
    IN  IF ~info.answered THEN "no_answer" ELSE "send"

\* check_and_send_message without its test of answered
PublishDecision_no_answer_test(history, d) ==
    LET info == _ensure_day_record(history, d)[_date_key(d)]
    IN  IF info.message_sent THEN "already_sent" ELSE "send"

\* what check_and_send_message decides from the record of today it loaded
PublishDecision(history, d) ==
    LET info == _ensure_day_record(history, d)[_date_key(d)]
    IN  IF ~info.answered THEN "no_answer"
        ELSE IF info.message_sent THEN "already_sent"
        ELSE "send"

\* MESSAGE_TEMPLATE.format(n), followed by VACATION_HASHTAG when hashtag is set
MessageText(history, d) ==
    LET info == _ensure_day_record(history, d)[_date_key(d)]
    IN  [n |-> _calculate_day_number_for_date(d),
         hashtag |-> info.day_status = "vacation"]

----------------------------------------------------------------------------
(* Texts and inputs *)

NoText == [n |-> 0, hashtag |-> FALSE]

\* a message to a user: which fixed text, the date it quotes or its buttons
\* carry, the lines of a status report
Text(kind, date, lines) == [kind |-> kind, date |-> date, lines |-> lines]

NoMessage == Text("none", None, <<>>)

StatusWord(day_status) ==
    CASE day_status = "vacation" -> "vacation"
      [] day_status = "work" -> "work"
      [] OTHER -> "undefined"

\* k1 <= k2 in the order of the ISO date strings
KeyLeq(k1, k2) ==
    \/ k1[1] < k2[1]
    \/ k1[1] = k2[1] /\ k1[2] < k2[2]
    \/ k1[1] = k2[1] /\ k1[2] = k2[2] /\ k1[3] <= k2[3]

\* sorted(keys, reverse=True)
RECURSIVE SortedReverse(_)
SortedReverse(keys) ==
    IF keys = {} THEN <<>>
    ELSE LET top == CHOOSE k \in keys : \A other \in keys : KeyLeq(other, k)
         IN  <<top>> \o SortedReverse(keys \ {top})

\* the report of handle_status_command
StatusReport(history0, d) ==
    LET history == _ensure_day_record(history0, d)
        today_key == _date_key(d)
        keys == SortedReverse(DOMAIN history)
        others == SelectSeq(keys, LAMBDA k : k # today_key)
        other_days == SubSeq(others, 1, IF Len(others) < 5 THEN Len(others) ELSE 5)
    IN  Text("status", Some(today_key),
             <<<<today_key, StatusWord(history[today_key].day_status), "today">>>> \o
             [i \in 1..Len(other_days) |->
                <<other_days[i], StatusWord(history[other_days[i]].day_status),
                  history[other_days[i]].answer_source>>])

BossName == <<"B", "o">>

\* the identities that send updates
Users ==
    { Some([id |-> 7, username |-> None]),
      Some([id |-> 8, username |-> Some(<<"b", "O">>)]),
      Some([id |-> 8, username |-> Some(<<"e", "v">>)]) }

\* callback_data split at the first ":": the action and the optional date part
CallbackActions == {"vacation_yes", "vacation_no", "other"}

\* the date parts of callback_data: none, one that does not parse, the dates
\* of the calendar
CallbackDates ==
    {None} \cup {Some(<<2025, 11, 31>>)} \cup {Some(_date_key(d)) : d \in Dates}

\* a button carrying this date part is in the boss chat: the buttons of a date
\* are those of the prompts sent for it (the question of a date is sent exactly
\* when its record has question_sent, and a reminder repeats the date of a
\* question); buttons without a date part or with one that does not parse can
\* be pressed at any time
ButtonExists(date_part) ==
    IF IsNone(date_part) \/ date_part = Some(<<2025, 11, 31>>) THEN TRUE
    ELSE /\ Value(date_part) \in DOMAIN file
         /\ file[Value(date_part)].question_sent

\* the commands main() registers handle_command for
Commands == {"/start", "/help"}

NoUpdate ==
    [pc |-> "idle", is_today |-> FALSE, pending |-> NoMessage, today |-> 0,
     text |-> NoText]

NoPublish == [pc |-> "idle", today |-> 0, text |-> NoText]

NoTask == [pc |-> "idle", today |-> 0]

----------------------------------------------------------------------------
(* start_scheduler: the cron jobs *)

RECURSIVE split(_, _)
\* str.split(sep) for a one-character sep
split(s, sep) ==
    IF \A i \in 1..Len(s) : s[i] # sep THEN <<s>>
    ELSE LET i == CHOOSE j \in 1..Len(s) :
                     s[j] = sep /\ \A k \in 1..(j - 1) : s[k] # sep
         IN  <<SubSeq(s, 1, i - 1)>> \o split(SubSeq(s, i + 1, Len(s)), sep)

\* the two cron jobs start_scheduler adds for a send time "HH:MM", each with
\* the hour and minute of its CronTrigger; last_run is the date on which the
\* job last fired, 0 before it ever did
CronJobs(send_time) ==
    LET parts == split(send_time, ":")
        hour == Value(int(parts[1]))
        minute == Value(int(parts[2]))
        question_hour == (hour - 3) % 24
    IN  [daily_game_message |->
             [hour |-> hour, minute |-> minute, last_run |-> 0],
         daily_vacation_question |->
             [hour |-> question_hour, minute |-> minute, last_run |-> 0]]

----------------------------------------------------------------------------
(* Initial state: a first start, no state file yet *)

Configure(chat_ids, usernames) ==
    /\ BOSS_CHAT_ID \in chat_ids
    /\ BOSS_USERNAME \in usernames

Fresh ==
    /\ SEND_TIME = <<"1", "3", ":", "0", "0">>
    /\ crons = CronJobs(SEND_TIME)
    /\ today = FirstDay
    /\ file = <<>>
    /\ disk = "missing"
    /\ raised = None
    /\ cache = <<>>
    /\ jobs = {}
    /\ pub = NoPublish
    /\ ask = NoTask
    /\ rem = NoTask
    /\ upd = NoUpdate
    /\ channel = <<>>

Init ==
    /\ Configure({None, Some(<<"7">>)}, {BossName})
    /\ Fresh

----------------------------------------------------------------------------
(* The clock and the scheduler *)

\* The jobs of the scheduler fire hours apart (the question, its reminder an
\* hour later, the publication three hours after the question: SEND_TIME) and
\* a send lasts seconds: no two of them are in flight together and none is in
\* flight at midnight.  An update can arrive at any time.
SchedulerIdle == pub.pc = "idle" /\ ask.pc = "idle" /\ rem.pc = "idle"

\* midnight passes; the scheduler has run every job that was due before it
Tick ==
    /\ today < LastDay
    /\ \A j \in jobs : j.run_date > today
    /\ SchedulerIdle
    /\ today' = today + 1
    /\ UNCHANGED <<BOSS_CHAT_ID, BOSS_USERNAME, SEND_TIME, raised, crons,
                   file, disk, cache, jobs, pub, ask, rem,
                   upd, channel>>

----------------------------------------------------------------------------
(* check_and_send_message, run by the 'daily_game_message' cron job *)

\* check_and_send_message up to the await of bot.send_message, run by the
\* job; the safety of the program does not depend on when or how often it runs
PublishJobStart ==
    /\ SchedulerIdle
    /\ pub' = IF PublishDecision(load_vacation_history, today) = "send"
              THEN [pc |-> "send", today |-> today,
                    text |-> MessageText(load_vacation_history, today)]
              ELSE NoPublish
    /\ UNCHANGED <<today, BOSS_CHAT_ID, BOSS_USERNAME, SEND_TIME, raised, crons,
                   file, disk, cache, jobs, ask, rem,
                   upd, channel>>

\* a cron job that fires and returns without ever going to the send
PublishJobFires_never_sending ==
    /\ crons.daily_game_message.last_run < today
    /\ SchedulerIdle
    /\ crons' = [crons EXCEPT !.daily_game_message.last_run = today]
    /\ pub' = NoPublish
    /\ UNCHANGED <<today, BOSS_CHAT_ID, BOSS_USERNAME, SEND_TIME, raised,
                   file, disk, cache, jobs, ask, rem,
                   upd, channel>>

\* the 'daily_game_message' job as its CronTrigger(hour, minute) runs it: once
\* a date, at SEND_TIME; check_and_send_message up to the await of
\* bot.send_message
PublishJobFires ==
    /\ crons.daily_game_message.last_run < today
    /\ SchedulerIdle
    /\ crons' = [crons EXCEPT !.daily_game_message.last_run = today]
    /\ pub' = IF PublishDecision(load_vacation_history, today) = "send"
              THEN [pc |-> "send", today |-> today,
                    text |-> MessageText(load_vacation_history, today)]
              ELSE NoPublish
    /\ UNCHANGED <<today, BOSS_CHAT_ID, BOSS_USERNAME, SEND_TIME, raised,
                   file, disk, cache, jobs, ask, rem,
                   upd, channel>>

\* an attempt that marks the message sent whether or not the send succeeded
AfterChannelSend_marking_failures(d, text, ok) ==
    /\ channel' = IF ok THEN Append(channel, text) ELSE channel
    /\ file' = mark_message_sent_for_date(load_vacation_history, d, today)
    /\ disk' = "ok"

\* an attempt that marks the record it loaded before the await and saves that
\* copy: the status in it is the one the text was built from
AfterChannelSend_saving_loaded_copy(d, text, ok) ==
    IF ok
    THEN LET h == mark_message_sent_for_date(load_vacation_history, d, today)
             key == _date_key(d)
         IN  /\ channel' = Append(channel, text)
             /\ file' = Put(h, key, [h[key] EXCEPT
                            !.day_status = IF text.hashtag THEN "vacation" ELSE "work"])
             /\ disk' = "ok"
    ELSE UNCHANGED <<channel, file, disk>>

\* what follows the await in check_and_send_message, for the attempt of date d
AfterChannelSend(d, text, ok) ==
    IF ok
    THEN /\ channel' = Append(channel, text)
         /\ file' = mark_message_sent_for_date(load_vacation_history, d, today)
         /\ disk' = "ok"
    ELSE UNCHANGED <<channel, file, disk>>

PublishJobSendDone(ok) ==
    /\ pub.pc = "send"
    /\ AfterChannelSend(pub.today, pub.text, ok)
    /\ pub' = NoPublish
    /\ UNCHANGED <<today, BOSS_CHAT_ID, BOSS_USERNAME, SEND_TIME, raised, crons,
                   cache, jobs, ask, rem, upd>>

----------------------------------------------------------------------------
(* ask_about_vacation, run by the 'daily_vacation_question' cron job *)

\* add_job keeping a job of the same id
add_job_keeping(js, job) == js \cup {job}

\* scheduler.add_job(..., id=job.id, replace_existing=True)
add_job(js, job) == {j \in js : j.id # job.id} \cup {job}

\* up to the await of bot.send_message
AskStart ==
    /\ SchedulerIdle
    /\ ask' = IF ~Truthy(BOSS_CHAT_ID) THEN NoTask
              ELSE [pc |-> "send", today |-> today]
    /\ UNCHANGED <<today, BOSS_CHAT_ID, BOSS_USERNAME, SEND_TIME, raised, crons,
                   file, disk, cache, jobs, pub, rem,
                   upd, channel>>

\* How an awaited bot.send_message to the boss ends: it returns, it raises
\* Forbidden with "bot can't initiate conversation with a user" (the handler
\* of that exception goes on to await bot.get_me()), or it raises anything
\* else (logged)
BossSendOutcomes == {"sent", "no_conversation", "error"}

\* ask_about_vacation marking the question and arming the reminder whether or
\* not the send succeeded
AskSendDone_marking_failures(outcome, run_date) ==
    /\ ask.pc = "send"
    /\ run_date \in {today, today + 1}
    /\ file' = mark_question_sent_for_date(load_vacation_history, ask.today, today)
    /\ disk' = "ok"
    /\ jobs' = add_job(jobs, [id |-> _date_key(today), run_date |-> run_date])
    /\ ask' = NoTask
    /\ UNCHANGED <<today, BOSS_CHAT_ID, BOSS_USERNAME, SEND_TIME, raised, crons,
                   cache, pub, rem, upd, channel>>

\* the question was sent or the send raised; one hour from now is a time of
\* this day or of the next (run_date)
AskSendDone(outcome, run_date) ==
    /\ ask.pc = "send"
    /\ run_date \in {today, today + 1}
    /\ IF outcome = "sent"
       THEN /\ file' = mark_question_sent_for_date(load_vacation_history,
                                                   ask.today, today)
            /\ disk' = "ok"
            /\ jobs' = add_job(jobs, [id |-> _date_key(today), run_date |-> run_date])
       ELSE UNCHANGED <<file, disk, jobs>>
    /\ ask' = IF outcome = "no_conversation"
              THEN [pc |-> "get_me", today |-> ask.today]
              ELSE NoTask
    /\ UNCHANGED <<today, BOSS_CHAT_ID, BOSS_USERNAME, SEND_TIME, raised, crons,
                   cache, pub, rem, upd, channel>>

\* bot.get_me() returned or raised (the bare except passes): the job logs
\* what the boss has to do and ends
AskGetMeDone ==
    /\ ask.pc = "get_me"
    /\ ask' = NoTask
    /\ UNCHANGED <<today, BOSS_CHAT_ID, BOSS_USERNAME, SEND_TIME, raised, crons,
                   file, disk, cache, jobs, pub, rem,
                   upd, channel>>

----------------------------------------------------------------------------
(* send_vacation_reminder_if_needed, run as a task by a due reminder job *)

\* send_vacation_reminder_if_needed without its test of answered
ReminderDecision_no_answer_test(history, d) ==
    LET key == _date_key(d)
    IN  IF key \notin DOMAIN history \/ ~history[key].question_sent
        THEN "no_question"
        ELSE IF ~Truthy(BOSS_CHAT_ID) THEN "no_boss_chat_id"
        ELSE "send"

\* what send_vacation_reminder_if_needed decides from the history it loaded
ReminderDecision(history, d) ==
    LET key == _date_key(d)
    IN  IF key \notin DOMAIN history \/ ~history[key].question_sent
        THEN "no_question"
        ELSE IF history[key].answered THEN "already_answered"
        ELSE IF ~Truthy(BOSS_CHAT_ID) THEN "no_boss_chat_id"
        ELSE "send"

\* the job fires once and is gone.  Its function is _wrap_send_reminder, which
\* calls asyncio.create_task and returns: run on the thread of the event loop
\* it leaves the task created, not yet started; run by the executor on a worker
\* thread, create_task raises (no running event loop) and no task exists
ReminderJobRun(job, created) ==
    /\ job \in jobs
    /\ job.run_date = today
    /\ SchedulerIdle
    /\ jobs' = jobs \ {job}
    /\ rem' = IF created THEN [pc |-> "created", today |-> 0] ELSE NoTask
    /\ UNCHANGED <<today, BOSS_CHAT_ID, BOSS_USERNAME, SEND_TIME, raised, crons,
                   file, disk, cache, pub, ask, upd,
                   channel>>

\* the event loop starts the task: send_vacation_reminder_if_needed runs up to
\* its await
ReminderTaskStart ==
    /\ rem.pc = "created"
    /\ rem' = IF ReminderDecision(load_vacation_history, today) = "send"
              THEN [pc |-> "send", today |-> today]
              ELSE NoTask
    /\ UNCHANGED <<today, BOSS_CHAT_ID, BOSS_USERNAME, SEND_TIME, raised, crons,
                   file, disk, cache, jobs, pub, ask, upd,
                   channel>>

\* the reminder was sent or the send raised: the task logs and ends, after
\* an await of bot.get_me() when the boss has no conversation with the bot
ReminderSendDone(outcome) ==
    /\ rem.pc = "send"
    /\ rem' = IF outcome = "no_conversation"
              THEN [pc |-> "get_me", today |-> rem.today]
              ELSE NoTask
    /\ UNCHANGED <<today, BOSS_CHAT_ID, BOSS_USERNAME, SEND_TIME, raised, crons,
                   file, disk, cache, jobs, pub, ask,
                   upd, channel>>

\* bot.get_me() returned or raised: the task logs and ends
ReminderGetMeDone ==
    /\ rem.pc = "get_me"
    /\ rem' = NoTask
    /\ UNCHANGED <<today, BOSS_CHAT_ID, BOSS_USERNAME, SEND_TIME, raised, crons,
                   file, disk, cache, jobs, pub, ask,
                   upd, channel>>

----------------------------------------------------------------------------
(* handle_callback: updates are handled one at a time *)

\* the date of the payload read field by field, without strptime's check that
\* it is a date of the calendar
TargetDate_unchecked(date_part, d) ==
    IF IsNone(date_part) THEN d ELSE Ordinal(Value(date_part))

\* the date the payload names: today when it has no date part or one that
\* does not parse
TargetDate(date_part, d) ==
    IF IsNone(date_part) THEN d
    ELSE IF IsNone(strptime(Value(date_part))) THEN d
    ELSE Value(strptime(Value(date_part)))

\* the text edit_message_text is given after an answer
Confirmation(action, target_date, is_today) ==
    IF action = "vacation_yes"
    THEN IF is_today THEN Text("today_vacation", None, <<>>)
         ELSE Text("past_vacation", Some(_date_key(target_date)), <<>>)
    ELSE IF is_today THEN Text("today_work", None, <<>>)
         ELSE Text("past_work", Some(_date_key(target_date)), <<>>)

\* a button press arrives; the handler awaits query.answer().  The handler
\* reads nothing of the update before that await returns, so the sender and
\* the payload are inputs of the steps that follow it
CallbackReceive ==
    /\ upd.pc = "idle"
    /\ upd' = [NoUpdate EXCEPT !.pc = "cb_answer"]
    /\ UNCHANGED <<today, BOSS_CHAT_ID, BOSS_USERNAME, SEND_TIME, raised, crons,
                   file, disk, cache, jobs, pub, ask,
                   rem, channel>>

\* an awaited call of the handler raised: the handler ends there
HandlerRaised ==
    /\ upd.pc \in {"cb_answer", "cb_deny", "cb_confirm", "cmd_reply"}
    /\ upd' = NoUpdate
    /\ UNCHANGED <<today, BOSS_CHAT_ID, BOSS_USERNAME, SEND_TIME, raised, crons,
                   file, disk, cache, jobs, pub, ask,
                   rem, channel>>

\* query.answer() returned: the gate, the parse of callback_data and
\* set_day_status, up to the await of edit_message_text
CallbackAnswered(user, action, date_part) ==
    /\ upd.pc = "cb_answer"
    /\ ButtonExists(date_part)
    /\ IF ~is_boss_user(user)
       THEN /\ upd' = [upd EXCEPT !.pc = "cb_deny",
                                  !.pending = Text("no_rights_button", None, <<>>)]
            /\ UNCHANGED <<file, disk, cache>>
       ELSE LET target_date == TargetDate(date_part, today)
                is_today == target_date = today
            IN  IF action \in {"vacation_yes", "vacation_no"}
                THEN /\ upd' = [upd EXCEPT !.pc = "cb_confirm",
                                    !.is_today = is_today,
                                    !.pending = Confirmation(action, target_date,
                                                             is_today)]
                     /\ cache' = CachePut(cache, target_date, action = "vacation_yes")
                     /\ file' = set_day_status(load_vacation_history, target_date,
                                    action = "vacation_yes", "boss_button", today)
                     /\ disk' = "ok"
                ELSE /\ upd' = NoUpdate
                     /\ UNCHANGED <<file, disk, cache>>
    /\ UNCHANGED <<today, BOSS_CHAT_ID, BOSS_USERNAME, SEND_TIME, raised, crons,
                   jobs, pub, ask, rem, channel>>

\* the denial was delivered: the handler logs and returns
CallbackDenied ==
    /\ upd.pc = "cb_deny"
    /\ upd' = NoUpdate
    /\ UNCHANGED <<today, BOSS_CHAT_ID, BOSS_USERNAME, SEND_TIME, raised, crons,
                   file, disk, cache, jobs, pub, ask,
                   rem, channel>>

\* handle_callback calling check_and_send_message after every answer
PublishesAfterAnswer_always(is_today) == TRUE

\* whether handle_callback goes on to check_and_send_message
PublishesAfterAnswer(is_today) == is_today

\* the confirmation was delivered; after an answer about today
\* check_and_send_message runs up to its await
CallbackConfirmed ==
    /\ upd.pc = "cb_confirm"
    /\ upd' = IF /\ PublishesAfterAnswer(upd.is_today)
                 /\ PublishDecision(load_vacation_history, today) = "send"
              THEN [upd EXCEPT !.pc = "cb_send", !.pending = NoMessage,
                               !.today = today,
                               !.text = MessageText(load_vacation_history, today)]
              ELSE NoUpdate
    /\ UNCHANGED <<today, BOSS_CHAT_ID, BOSS_USERNAME, SEND_TIME, raised, crons,
                   file, disk, cache, jobs, pub, ask,
                   rem, channel>>

CallbackSendDone(ok) ==
    /\ upd.pc = "cb_send"
    /\ AfterChannelSend(upd.today, upd.text, ok)
    /\ upd' = NoUpdate
    /\ UNCHANGED <<today, BOSS_CHAT_ID, BOSS_USERNAME, SEND_TIME, raised, crons,
                   cache, jobs, pub, ask, rem>>

----------------------------------------------------------------------------
(* handle_command and handle_status_command *)

\* the text handle_command replies with
CommandReply(user, command) ==
    IF ~is_boss_user(user) THEN Text("no_rights_command", None, <<>>)
    ELSE IF command = "/status" THEN StatusReport(load_vacation_history, today)
    ELSE Text("help", None, <<>>)

\* a command arrives; the handler runs up to its await of reply_text
CommandReceive(user, command) ==
    /\ upd.pc = "idle"
    /\ upd' = [NoUpdate EXCEPT !.pc = "cmd_reply",
                               !.pending = CommandReply(user, command)]
    /\ UNCHANGED <<today, BOSS_CHAT_ID, BOSS_USERNAME, SEND_TIME, raised, crons,
                   file, disk, cache, jobs, pub, ask,
                   rem, channel>>

\* the reply was delivered: the handler logs (after a denial) and returns
CommandReplied ==
    /\ upd.pc = "cmd_reply"
    /\ upd' = NoUpdate
    /\ UNCHANGED <<today, BOSS_CHAT_ID, BOSS_USERNAME, SEND_TIME, raised, crons,
                   file, disk, cache, jobs, pub, ask,
                   rem, channel>>

----------------------------------------------------------------------------
(* The program *)

Next ==
    \/ Tick
    \/ PublishJobStart
    \/ \E ok \in BOOLEAN : PublishJobSendDone(ok)
    \/ AskStart
    \/ \E outcome \in BossSendOutcomes, run_date \in Dates \cup {LastDay + 1} :
            AskSendDone(outcome, run_date)
    \/ AskGetMeDone
    \/ \E job \in jobs, created \in BOOLEAN : ReminderJobRun(job, created)
    \/ ReminderTaskStart
    \/ \E outcome \in BossSendOutcomes : ReminderSendDone(outcome)
    \/ ReminderGetMeDone
    \/ CallbackReceive
    \/ HandlerRaised
    \/ \E user \in Users, action \in CallbackActions, date_part \in CallbackDates :
            CallbackAnswered(user, action, date_part)
    \/ CallbackDenied
    \/ CallbackConfirmed
    \/ \E ok \in BOOLEAN : CallbackSendDone(ok)
    \/ \E user \in Users, command \in Commands : CommandReceive(user, command)
    \/ CommandReplied

\* The program with a state file that reads and writes without error: every
\* save of its steps is written.  The faults of the file are in SpecFault.
Spec == Init /\ [][Next]_vars

----------------------------------------------------------------------------
(* The access gate over every configuration: the update handlers alone *)

ChatIdsAuth ==
    {None, Some(<<>>), Some(<<"7">>), Some(<<"0", "7">>), Some(<<"-", "7">>),
     Some(<<"9">>), Some(<<"x">>)}

UsernamesAuth == {BossName, <<"b", "o">>, <<"e", "v">>, <<>>}

\* no sender, and senders with and without a username (a username of
\* Telegram is never empty)
UsersAuth ==
    {None} \cup
    { Some([id |-> i, username |-> u]) :
        i \in {7, 8, 0 - 7},
        u \in {None, Some(BossName), Some(<<"b", "O">>), Some(<<"e", "v">>)} }

InitAuth ==
    /\ Configure(ChatIdsAuth, UsernamesAuth)
    /\ Fresh

NextAuth ==
    \/ CallbackReceive
    \/ HandlerRaised
    \/ \E user \in UsersAuth, action \in CallbackActions,
          date_part \in {None} \cup {Some(<<2025, 11, 31>>)} :
            CallbackAnswered(user, action, date_part)
    \/ CallbackDenied
    \/ CallbackConfirmed
    \/ \E ok \in BOOLEAN : CallbackSendDone(ok)
    \/ \E user \in UsersAuth, command \in Commands : CommandReceive(user, command)
    \/ CommandReplied

SpecAuth == InitAuth /\ [][NextAuth]_vars

\* the boss numeric ID, when BOSS_CHAT_ID is set to a number
BossId == IF ~IsNone(BOSS_CHAT_ID) THEN int(Value(BOSS_CHAT_ID)) ELSE None

\* a boss numeric ID is configured
BossIdConfigured == ~IsNone(BossId)

SameLetter(a, b) ==
    \/ a = b
    \/ {a, b} \in {{"B", "b"}, {"O", "o"}, {"E", "e"}, {"V", "v"}}

EqualIgnoringCase(a, b) ==
    Len(a) = Len(b) /\ \A i \in 1..Len(a) : SameLetter(a[i], b[i])

IdMatches(effective_user) ==
    /\ ~IsNone(effective_user)
    /\ ~IsNone(BossId)
    /\ Value(effective_user).id = Value(BossId)

UsernameMatches(effective_user) ==
    /\ ~IsNone(effective_user)
    /\ ~IsNone(Value(effective_user).username)
    /\ Value(Value(effective_user).username) # <<>>
    /\ EqualIgnoringCase(Value(Value(effective_user).username), BOSS_USERNAME)

\* the verdict of the gate as the two handlers show it: the step is the gate
\* step of a command or of a button press of this sender, and it denies
GateStep(user) ==
    \/ \E command \in Commands : CommandReceive(user, command)
    \/ \E action \in CallbackActions, date_part \in {None} :
            CallbackAnswered(user, action, date_part)

Denies == upd'.pending.kind \in {"no_rights_command", "no_rights_button"}

\* C8, as stated: the gate authorizes exactly the senders whose numeric ID is
\* the configured boss ID or, when no boss ID is configured, whose username is
\* the boss username up to case; with a boss ID configured no other ID passes.
C8AsStated ==
    [][\A user \in UsersAuth :
          GateStep(user) =>
             (~Denies <=> IF BossIdConfigured THEN IdMatches(user)
                          ELSE UsernameMatches(user))]_vars

\* C8, amended: the gate authorizes exactly the senders whose numeric ID is the
\* number BOSS_CHAT_ID is set to, or whose username is the boss username up to
\* case, whether or not a boss ID is configured.
C8GateVerdict ==
    [][\A user \in UsersAuth :
          GateStep(user) =>
             (~Denies <=> (IdMatches(user) \/ UsernameMatches(user)))]_vars

\* a command passed the gate with a boss ID configured that no sender has: a
\* sender with another ID passed by the username
C8Witness ==
    /\ BOSS_CHAT_ID = Some(<<"9">>)
    /\ BOSS_USERNAME = BossName
    /\ upd.pc = "cmd_reply"
    /\ upd.pending.kind = "help"

\* C9: a sender whose numeric ID is the configured boss ID passes the gate
\* whatever the username, none included; a sender whose username is the boss
\* username up to case passes when no boss ID is configured.
C9Authorized ==
    [][\A user \in UsersAuth :
          /\ GateStep(user) /\ IdMatches(user) => ~Denies
          /\ GateStep(user) /\ ~BossIdConfigured /\ UsernameMatches(user) => ~Denies]_vars

\* a button press passed the gate with no boss ID configured and a boss
\* username written in lower case: only the username up to case can have matched
C9Witness ==
    /\ IsNone(BOSS_CHAT_ID)
    /\ BOSS_USERNAME = <<"b", "o">>
    /\ upd.pc = "cb_confirm"

----------------------------------------------------------------------------
(* The day records and the channel, as the claims speak of them *)

HasRecord(d) == _date_key(d) \in DOMAIN file

Answered(d) == HasRecord(d) /\ file[_date_key(d)].answered

MessageSent(d) == HasRecord(d) /\ file[_date_key(d)].message_sent

QuestionSent(d) == HasRecord(d) /\ file[_date_key(d)].question_sent

DayStatus(d) == IF HasRecord(d) THEN file[_date_key(d)].day_status ELSE "null"

\* the counter messages of date d delivered to the channel
SentFor(d) ==
    Cardinality({i \in 1..Len(channel) :
                   channel[i].n = _calculate_day_number_for_date(d)})

\* a publish attempt begins in this step
PublishAttemptBegins == PublishJobStart \/ (CallbackConfirmed /\ upd.is_today)

\* a publish attempt that begins in this step goes on to send
AttemptSends ==
    \/ pub.pc = "idle" /\ pub'.pc = "send"
    \/ upd.pc = "cb_confirm" /\ upd'.pc = "cb_send"

\* a publish attempt of date d awaits its send
InFlightFor(d) ==
    \/ pub.pc = "send" /\ pub.today = d
    \/ upd.pc = "cb_send" /\ upd.today = d

\* C1: a publish attempt that begins when message_sent(today) is true sends
\* nothing; a send that succeeds sets message_sent of its date, and
\* message_sent is never taken back: of two attempts run one after the other
\* the second sends nothing.
C1PublishOnce ==
    [][/\ MessageSent(today) => ~AttemptSends
       /\ \A d \in Dates :
            /\ SentFor(d)' > SentFor(d) => MessageSent(d)'
            /\ MessageSent(d) => MessageSent(d)']_vars

\* the message of today is in the channel once and marked sent, and the boss
\* has answered about today again: a second attempt is about to run
C1Witness ==
    /\ MessageSent(today)
    /\ SentFor(today) = 1
    /\ upd.pc = "cb_confirm" /\ upd.is_today
    /\ pub.pc = "idle"

\* C2: whatever the interleaving of the handlers, the channel gets the counter
\* message of a date at most once.
C2AtMostOncePerDate == \A d \in Dates : SentFor(d) <= 1

\* C3: message_sent(d) implies answered(d) in every state, and a publish
\* attempt that begins while today is unanswered sends nothing and leaves the
\* state file as it is.
C3SentOnlyAnswered ==
    [][/\ \A d \in Dates : (MessageSent(d) => Answered(d))
                        /\ (MessageSent(d)' => Answered(d)')
       /\ ~Answered(today) => ~AttemptSends
       /\ PublishAttemptBegins /\ ~Answered(today) =>
             file' = file /\ channel' = channel]_vars

\* a message was published and marked sent for an answered date, and today
\* has no answer: what a publish attempt finds there
C3Witness ==
    /\ \E d \in Dates : MessageSent(d) /\ Answered(d) /\ SentFor(d) = 1
    /\ ~Answered(today)
    /\ SchedulerIdle

\* C4: a date once answered stays answered with a status of vacation or work,
\* and no record is dropped; the status of a date changes only in the step
\* that records an answer of the boss for that date, to the value of that
\* answer.
C4StatusNeverReset ==
    [][\A d \in Dates :
          /\ HasRecord(d) => HasRecord(d)'
          /\ Answered(d) <=> DayStatus(d) \in {"vacation", "work"}
          /\ Answered(d) => Answered(d)' /\ DayStatus(d)' \in {"vacation", "work"}
          /\ DayStatus(d)' # DayStatus(d) =>
               /\ upd.pc = "cb_answer" /\ upd'.pc = "cb_confirm"
               /\ \/ upd'.is_today /\ d = today
                  \/ upd'.pending.date = Some(_date_key(d))
               /\ DayStatus(d)' =
                     IF upd'.pending.kind \in {"today_vacation", "past_vacation"}
                     THEN "vacation" ELSE "work"]_vars

\* the message of today went out with the hashtag of a day off, and a later
\* answer has replaced the status of today by work
C4Witness ==
    /\ \E i \in 1..Len(channel) :
          /\ channel[i].n = _calculate_day_number_for_date(today)
          /\ channel[i].hashtag
    /\ DayStatus(today) = "work"
    /\ Answered(today)
    /\ QuestionSent(today)

\* C5: an answer of the boss for a date other than today records the status of
\* that date; the handler ends after its confirmation without a publish
\* attempt, and no attempt ever begins for a date other than today: the
\* channel gets no message for that date and its message_sent stays as it is.
C5PastAnswerNotPublished ==
    [][/\ ( /\ upd.pc = "cb_answer" /\ upd'.pc = "cb_confirm"
            /\ upd'.pending.kind \in {"past_vacation", "past_work"} ) =>
             \E d \in Dates :
                /\ d # today
                /\ upd'.pending.date = Some(_date_key(d))
                /\ ~upd'.is_today
                /\ Answered(d)'
                /\ DayStatus(d)' = IF upd'.pending.kind = "past_vacation"
                                   THEN "vacation" ELSE "work"
                /\ ~InFlightFor(d)'
                /\ SentFor(d)' = SentFor(d)
                /\ MessageSent(d)' <=> MessageSent(d)
       /\ (upd.pc = "cb_confirm" /\ ~upd.is_today /\ upd' # upd) =>
             upd' = NoUpdate /\ file' = file /\ channel' = channel
       /\ \A d \in Dates :
             (d # today /\ ~InFlightFor(d)) =>
                /\ ~InFlightFor(d)'
                /\ SentFor(d)' = SentFor(d)
                /\ MessageSent(d)' <=> MessageSent(d)]_vars

\* the boss has answered for an earlier date whose message never went out, and
\* the handler is about to end
C5Witness ==
    /\ upd.pc = "cb_confirm"
    /\ upd.pending.kind \in {"past_vacation", "past_work"}
    /\ \E d \in Dates :
          /\ d < today
          /\ upd.pending.date = Some(_date_key(d))
          /\ Answered(d) /\ ~MessageSent(d) /\ SentFor(d) = 0

\* C6: a reminder goes to its send only from the task of a reminder job, and
\* only when the question of today was sent and today has no answer; the job
\* that fires is gone and changes nothing else; when today is answered the
\* task sends nothing and changes neither the records, the jobs nor the
\* channel; no step of the reminder adds a job.
C6ReminderOnlyUnanswered ==
    [][/\ (rem.pc # "send" /\ rem'.pc = "send") =>
             /\ rem.pc = "created"
             /\ QuestionSent(today) /\ ~Answered(today)
       /\ \A job \in jobs, created \in BOOLEAN :
             ReminderJobRun(job, created) =>
                /\ jobs' = jobs \ {job}
                /\ rem'.pc # "send"
                /\ UNCHANGED <<file, cache, channel, pub, ask, upd>>
       /\ (rem.pc = "created" /\ rem' # rem /\ Answered(today)) =>
             /\ rem' = NoTask
             /\ UNCHANGED <<file, cache, channel, jobs, pub, ask, upd>>
       /\ rem' # rem => jobs' \subseteq jobs]_vars

\* the reminder job of today has fired and its task is about to start; the
\* boss has answered for today after the question
C6Witness ==
    /\ QuestionSent(today)
    /\ Answered(today)
    /\ rem.pc = "created"
    /\ jobs = {}

\* C7: the scheduler holds at most one reminder job under the id of a date.
C7OneReminderJobPerDate ==
    \A d \in Dates \cup {LastDay + 1} :
        Cardinality({job \in jobs : job.id = _date_key(d)}) <= 1

\* the reminder of today is pending, to run tomorrow, and the question of
\* today is being sent again: a second job is about to be added under its id
C7Witness ==
    /\ QuestionSent(today)
    /\ jobs = {[id |-> _date_key(today), run_date |-> today + 1]}
    /\ today = FirstDay
    /\ ask.pc = "send"

\* the gate step of a command or of a button press of this sender, whatever
\* the payload
GateStepAnyPayload(user) ==
    \/ \E command \in Commands : CommandReceive(user, command)
    \/ \E action \in CallbackActions, date_part \in CallbackDates :
            CallbackAnswered(user, action, date_part)

\* C10: a command or a button press of a sender that is not authorized gets
\* the denial and changes no record, no cache entry, no job and nothing in
\* the channel; delivering the denial changes nothing either.
C10DenialChangesNothing ==
    [][/\ (upd.pc \in {"idle", "cb_answer"} /\ upd' # upd) =>
             \A user \in Users :
                ( /\ ~(IdMatches(user) \/ UsernameMatches(user))
                  /\ GateStepAnyPayload(user) ) =>
                   /\ Denies
                   /\ UNCHANGED <<file, cache, channel, jobs, pub, ask, rem>>
       /\ ( /\ upd.pending.kind \in {"no_rights_command", "no_rights_button"}
            /\ upd' # upd ) =>
             /\ upd' = NoUpdate
             /\ UNCHANGED <<file, cache, channel, jobs, pub, ask, rem>>]_vars

\* a button of the question of today was pressed by a sender that is not
\* authorized: the denial is on its way and today has no answer
C10Witness ==
    /\ upd.pc = "cb_deny"
    /\ upd.pending.kind = "no_rights_button"
    /\ QuestionSent(today)
    /\ ~Answered(today)
    /\ jobs # {}

----------------------------------------------------------------------------
(* The day record store, operation by operation: the functions of the store *)
(* called in any order, within one process and across restarts              *)

\* How save_vacation_history ends.  "written": the file holds the new history
\* and reads back.  "written_unreadable": the write succeeds and the file
\* cannot be read afterwards: it was unreadable and stays so (write-only), or
\* the write created it without read permission (the umask of the process).
\* "refused": open(..., "w") raises (no permission to write, a directory at
\* the path, a directory that cannot be searched), the file is as it was.
\* "cut": the write raises after open(..., "w") has truncated the file (disk
\* full, file size limit): what is left is no JSON and no record.  Every
\* exception is only logged.
SaveOutcomes ==
    IF disk = "no_access" THEN {"refused"}
    ELSE {"written", "refused", "cut"}
            \cup (IF disk \in {"missing", "unreadable"}
                  THEN {"written_unreadable"} ELSE {})

\* save_vacation_history(history)
save_vacation_history(history, outcome) ==
    CASE outcome = "written" -> file' = history /\ disk' = "ok"
      [] outcome = "written_unreadable" -> file' = history /\ disk' = "unreadable"
      [] outcome = "refused" -> UNCHANGED <<file, disk>>
      [] outcome = "cut" -> file' = <<>> /\ disk' = "unreadable"

\* set_day_status called directly: the cache entry is written first (line
\* 110); exists = "raises" takes the exception out of the load at line 112 and
\* out of set_day_status, before anything is saved
StoreSetDayStatus(d, is_vacation, exists, outcome) ==
    /\ cache' = CachePut(cache, d, is_vacation)
    /\ IF exists = "raises"
       THEN /\ raised' = Some("PermissionError")
            /\ UNCHANGED <<file, disk>>
       ELSE /\ raised' = None
            /\ save_vacation_history(set_day_status(load_vacation_history, d,
                                                    is_vacation, "boss_button",
                                                    today), outcome)
    /\ UNCHANGED <<today, BOSS_CHAT_ID, BOSS_USERNAME, SEND_TIME, crons,
                   jobs, pub, ask, rem, upd,
                   channel>>

\* get_vacation_status_for_date called directly: a cached date is answered
\* without a load (lines 129-130)
StoreGetVacationStatus(d, exists) ==
    /\ IF exists = "raises" /\ d \notin DOMAIN cache
       THEN /\ raised' = Some("PermissionError")
            /\ cache' = cache
       ELSE /\ raised' = None
            /\ cache' = CacheAfterGet(cache, load_vacation_history, d)
    /\ UNCHANGED <<today, BOSS_CHAT_ID, BOSS_USERNAME, SEND_TIME, crons,
                   file, disk, jobs, pub, ask,
                   rem, upd, channel>>

StoreMarkQuestionSent(d, exists, outcome) ==
    /\ IF exists = "raises"
       THEN /\ raised' = Some("PermissionError")
            /\ UNCHANGED <<file, disk>>
       ELSE /\ raised' = None
            /\ save_vacation_history(mark_question_sent_for_date(
                                         load_vacation_history, d, today), outcome)
    /\ UNCHANGED <<today, BOSS_CHAT_ID, BOSS_USERNAME, SEND_TIME, crons,
                   cache, jobs, pub, ask, rem,
                   upd, channel>>

StoreMarkMessageSent(d, exists, outcome) ==
    /\ IF exists = "raises"
       THEN /\ raised' = Some("PermissionError")
            /\ UNCHANGED <<file, disk>>
       ELSE /\ raised' = None
            /\ save_vacation_history(mark_message_sent_for_date(
                                         load_vacation_history, d, today), outcome)
    /\ UNCHANGED <<today, BOSS_CHAT_ID, BOSS_USERNAME, SEND_TIME, crons,
                   cache, jobs, pub, ask, rem,
                   upd, channel>>

\* the process starts again: the cache is a module global, empty at import
StoreRestart ==
    /\ cache' = <<>>
    /\ UNCHANGED <<today, BOSS_CHAT_ID, BOSS_USERNAME, SEND_TIME, raised, crons,
                   file, disk, jobs, pub, ask,
                   rem, upd, channel>>

InitStore ==
    /\ Configure({None}, {BossName})
    /\ Fresh

\* the store with a file that reads and writes without error
NextStore ==
    \/ \E d \in Dates, is_vacation \in BOOLEAN, exists \in ExistsOutcomes :
            StoreSetDayStatus(d, is_vacation, exists, "written")
    \/ \E d \in Dates, exists \in ExistsOutcomes : StoreGetVacationStatus(d, exists)
    \/ \E d \in Dates, exists \in ExistsOutcomes :
            StoreMarkQuestionSent(d, exists, "written")
    \/ \E d \in Dates, exists \in ExistsOutcomes :
            StoreMarkMessageSent(d, exists, "written")
    \/ StoreRestart

SpecStore == InitStore /\ [][NextStore]_vars

\* The state file fails from outside the program: it is deleted, it is
\* replaced by JSON that is no object (its records are gone), reading it
\* raises while its records are still in it (an I/O error on open or read, no
\* permission to read), or its directory loses the search permission, so that
\* the path cannot even be examined (the records are still in the file).
FileKinds == {"missing", "not_object", "unreadable", "no_access"}

FileFault(kind) ==
    /\ disk' = kind
    /\ file' = IF kind \in {"unreadable", "no_access"} THEN file ELSE <<>>
    /\ UNCHANGED <<today, BOSS_CHAT_ID, BOSS_USERNAME, SEND_TIME, raised, crons,
                   cache, jobs, pub, ask, rem,
                   upd, channel>>

\* the cause of the failed reads is removed from outside (the permissions are
\* put back, the file is mended): the file reads again, with what it holds
FileRestored ==
    /\ disk \in {"unreadable", "no_access"}
    /\ disk' = "ok"
    /\ UNCHANGED <<today, BOSS_CHAT_ID, BOSS_USERNAME, SEND_TIME, raised, crons,
                   file, cache, jobs, pub, ask, rem,
                   upd, channel>>

NextFault ==
    \/ \E d \in Dates, is_vacation \in BOOLEAN, exists \in ExistsOutcomes,
          outcome \in SaveOutcomes :
            StoreSetDayStatus(d, is_vacation, exists, outcome)
    \/ \E d \in Dates, exists \in ExistsOutcomes : StoreGetVacationStatus(d, exists)
    \/ \E d \in Dates, exists \in ExistsOutcomes, outcome \in SaveOutcomes :
            StoreMarkQuestionSent(d, exists, outcome)
    \/ \E d \in Dates, exists \in ExistsOutcomes, outcome \in SaveOutcomes :
            StoreMarkMessageSent(d, exists, outcome)
    \/ StoreRestart
    \/ \E kind \in FileKinds : FileFault(kind)
    \/ FileRestored

SpecFault == InitStore /\ [][NextFault]_vars

\* C11: in every state of the store, get_vacation_status_for_date(d) returns
\* true exactly when the record of d in the file has day_status vacation
\* (false without a record), and the answer with the cache as it is equals the
\* answer with an empty cache.
C11CacheAgreesWithFile ==
    \A d \in Dates :
        /\ get_vacation_status_for_date(cache, load_vacation_history, d)
             = (DayStatus(d) = "vacation")
        /\ get_vacation_status_for_date(<<>>, load_vacation_history, d)
             = (DayStatus(d) = "vacation")

\* set_day_status made one date a day off with the cache warm, and another
\* date is a day off in the file with nothing in the cache
C11Witness ==
    \E d1 \in Dates, d2 \in Dates :
        /\ d1 \in DOMAIN cache /\ cache[d1] /\ DayStatus(d1) = "vacation"
        /\ d2 \notin DOMAIN cache /\ DayStatus(d2) = "vacation"

\* The operations that ensure a day record, each called directly: the three
\* saving functions of the store, check_and_send_message, and handle_command
\* given the text "/status" (main() routes no such message to it)
NextEnsure ==
    \/ \E d \in Dates, is_vacation \in BOOLEAN, exists \in ExistsOutcomes :
            StoreSetDayStatus(d, is_vacation, exists, "written")
    \/ \E d \in Dates, exists \in ExistsOutcomes :
            StoreMarkQuestionSent(d, exists, "written")
    \/ \E d \in Dates, exists \in ExistsOutcomes :
            StoreMarkMessageSent(d, exists, "written")
    \/ PublishJobStart
    \/ \E ok \in BOOLEAN : PublishJobSendDone(ok)
    \/ \E user \in Users : CommandReceive(user, "/status")
    \/ CommandReplied

SpecEnsure == InitStore /\ [][NextEnsure]_vars

\* C12: every operation that ensures the record of a date leaves a record of
\* that date in the file: set_day_status, mark_question_sent_for_date and
\* mark_message_sent_for_date for their date, a publish attempt and the status
\* command of an authorized sender for today.
C12RecordCreationPersisted ==
    [][/\ \A d \in Dates :
             /\ (\E is_vacation \in BOOLEAN, exists \in ExistsOutcomes :
                    StoreSetDayStatus(d, is_vacation, exists, "written"))
                   => HasRecord(d)'
             /\ (\E exists \in ExistsOutcomes :
                    StoreMarkQuestionSent(d, exists, "written")) => HasRecord(d)'
             /\ (\E exists \in ExistsOutcomes :
                    StoreMarkMessageSent(d, exists, "written")) => HasRecord(d)'
       /\ PublishJobStart => HasRecord(today)'
       /\ \A user \in Users :
             (is_boss_user(user) /\ CommandReceive(user, "/status")) =>
                HasRecord(today)']_vars

\* the file holds the record of d and no other, and the record is fresh but
\* for the fields in `set`: its own date, no status, nothing sent, not answered
FreshRecordAlone(f, d, set) ==
    /\ DOMAIN f = {_date_key(d)}
    /\ LET info == f[_date_key(d)]
       IN  /\ info.date = _date_key(d)
           /\ "day_status" \in set \/ info.day_status = "null"
           /\ "question_sent" \in set \/ ~info.question_sent
           /\ "answered" \in set \/ ~info.answered
           /\ "message_sent" \in set \/ ~info.message_sent

\* C13: while the state file is missing, unreadable or no JSON object, every
\* store operation that ensures the record of a date d returns without an
\* exception (its load gave the empty store), and when its save writes the
\* file, the file holds the record of d alone and that record is fresh but
\* for what the operation sets: its own date, no status, question_sent,
\* answered and message_sent false.
C13FailedLoadGivesFreshRecord ==
    [][\A d \in Dates, exists \in {"true", "false", "raises"},
          outcome \in {"written", "written_unreadable", "refused", "cut"} :
          disk # "ok" =>
             /\ (\E is_vacation \in BOOLEAN :
                    StoreSetDayStatus(d, is_vacation, exists, outcome)) =>
                   /\ raised' = None
                   /\ outcome \in {"written", "written_unreadable"} =>
                         FreshRecordAlone(file', d, {"day_status", "answered"})
             /\ StoreMarkQuestionSent(d, exists, outcome) =>
                   /\ raised' = None
                   /\ outcome \in {"written", "written_unreadable"} =>
                         FreshRecordAlone(file', d, {"question_sent"})
             /\ StoreMarkMessageSent(d, exists, outcome) =>
                   /\ raised' = None
                   /\ outcome \in {"written", "written_unreadable"} =>
                         FreshRecordAlone(file', d, {"message_sent"})]_vars

\* C14: a record in the file is in the file after every operation of the
\* program, those that follow a failed load included (a step that leaves the
\* file readable is a step of the program: a fault leaves it otherwise).
C14RecordNeverDeleted ==
    [][\A d \in Dates : (HasRecord(d) /\ disk' = "ok") => HasRecord(d)']_vars

\* C15: the text a publish attempt sends for today is the template filled with
\* the number of days from the start date to today plus one (1 on the start
\* date, 6 five days later), with the hashtag of a day off exactly when the
\* record of today has day_status vacation as the attempt begins; what reaches
\* the channel is the text of the attempt that completes.
C15MessageText ==
    [][/\ _calculate_day_number_for_date(START_DATE) = 1
       /\ _calculate_day_number_for_date(START_DATE + 5) = 6
       /\ (pub.pc = "idle" /\ pub'.pc = "send") =>
             /\ pub'.today = today
             /\ pub'.text = [n |-> (today - START_DATE) + 1,
                             hashtag |-> DayStatus(today) = "vacation"]
       /\ (upd.pc = "cb_confirm" /\ upd'.pc = "cb_send") =>
             /\ upd'.today = today
             /\ upd'.text = [n |-> (today - START_DATE) + 1,
                             hashtag |-> DayStatus(today) = "vacation"]
       /\ channel' # channel =>
             \/ pub.pc = "send" /\ pub'.pc = "idle"
                  /\ channel' = Append(channel, pub.text)
             \/ upd.pc = "cb_send" /\ upd'.pc = "idle"
                  /\ channel' = Append(channel, upd.text)]_vars

\* the channel holds the message of a day off, with the hashtag, and the
\* message of the next day, a working day, without it
C15Witness ==
    \E i \in 1..Len(channel), j \in 1..Len(channel) :
        /\ channel[i] = [n |-> (FirstDay - START_DATE) + 1, hashtag |-> TRUE]
        /\ channel[j] = [n |-> (LastDay - START_DATE) + 1, hashtag |-> FALSE]

\* C16: a publish attempt whose send fails leaves the file as it is, and
\* message_sent of a date becomes true only in a step that delivers a message
\* of that date; while today is answered and not marked sent, every attempt
\* that begins goes on to send.
C16MarkedOnlyOnSuccess ==
    [][/\ ( /\ \/ pub.pc = "send" /\ pub'.pc = "idle"
               \/ upd.pc = "cb_send" /\ upd'.pc = "idle"
            /\ channel' = channel ) => file' = file
       /\ \A d \in Dates :
             (~MessageSent(d) /\ MessageSent(d)') => SentFor(d)' = SentFor(d) + 1
       /\ (Answered(today) /\ ~MessageSent(today)) =>
             /\ PublishJobStart => pub'.pc = "send" /\ pub'.today = today
             /\ (CallbackConfirmed /\ upd.is_today) =>
                   upd'.pc = "cb_send" /\ upd'.today = today]_vars

\* the send of today's message is awaited by the cron job: today is answered,
\* nothing of today is in the channel and nothing is marked sent
C16Witness ==
    /\ pub.pc = "send" /\ pub.today = today
    /\ upd.pc = "idle"
    /\ Answered(today) /\ ~MessageSent(today) /\ SentFor(today) = 0

\* C17: question_sent of a date becomes true, and a reminder job is added,
\* only in the step that ends a question send of ask_about_vacation, which
\* needs a boss chat id; a question send that fails leaves the file and the
\* jobs as they are; without a boss chat id nothing is sent, marked or armed;
\* a reminder is sent only for a day whose question was sent.
C17QuestionMarkedOnlyOnSuccess ==
    [][/\ \A d \in Dates :
             (~QuestionSent(d) /\ QuestionSent(d)') =>
                /\ ask.pc = "send" /\ ask.today = d /\ ask'.pc = "idle"
                /\ Truthy(BOSS_CHAT_ID)
       /\ ~(jobs' \subseteq jobs) =>
             /\ ask.pc = "send" /\ ask'.pc = "idle"
             /\ \E d \in Dates : d = ask.today /\ QuestionSent(d)'
       /\ \A outcome \in BossSendOutcomes \ {"sent"}, run_date \in {today, today + 1} :
             AskSendDone(outcome, run_date) => file' = file /\ jobs' = jobs
       /\ ~Truthy(BOSS_CHAT_ID) =>
             /\ ask'.pc = "idle" /\ rem'.pc = "idle" /\ jobs' = {}
             /\ \A d \in Dates : ~QuestionSent(d)'
       /\ (rem.pc # "send" /\ rem'.pc = "send") => QuestionSent(today)]_vars

\* the question of today is on its way to the boss: no question of today was
\* sent before and no reminder is armed
C17Witness ==
    /\ ask.pc = "send" /\ ask.today = today
    /\ ~QuestionSent(today)
    /\ jobs = {}
    /\ today = LastDay

\* C18: a yes/no press of an authorized sender whose payload has no date part,
\* or one that is no date, is an answer about today: the status of today
\* becomes the choice, the confirmation is the one for today, the record of
\* no other date changes; once the confirmation is delivered the publish
\* attempt runs for today, sending exactly when today is answered and not
\* marked sent.
C18DatelessPayloadMeansToday ==
    [][/\ (upd.pc = "cb_answer" /\ upd' # upd) =>
             \A action \in {"vacation_yes", "vacation_no"} :
                \/ /\ upd'.pc = "cb_confirm"
                   /\ upd'.is_today
                   /\ upd'.pending.kind = IF action = "vacation_yes"
                                          THEN "today_vacation" ELSE "today_work"
                   /\ Answered(today)'
                   /\ DayStatus(today)' = IF action = "vacation_yes"
                                          THEN "vacation" ELSE "work"
                   /\ DOMAIN file' = DOMAIN file \cup {_date_key(today)}
                   /\ \A k \in DOMAIN file :
                         k # _date_key(today) => file'[k] = file[k]
                \/ \A user \in {u \in Users : IdMatches(u) \/ UsernameMatches(u)},
                      date_part \in {None, Some(<<2025, 11, 31>>)} :
                      ~CallbackAnswered(user, action, date_part)
       /\ (upd.pc = "cb_confirm" /\ upd.is_today /\ CallbackConfirmed) =>
             /\ upd'.pc = "cb_send" <=> (Answered(today) /\ ~MessageSent(today))
             /\ upd'.pc = "cb_send" => upd'.today = today]_vars

\* no boss chat id is configured, so no question was ever sent and no button
\* carries a date: a press of an old button has made today a day off and the
\* message of today, with the hashtag, is on its way to the channel
C18Witness ==
    /\ IsNone(BOSS_CHAT_ID)
    /\ upd.pc = "cb_send" /\ upd.today = today
    /\ upd.text.hashtag
    /\ DayStatus(today) = "vacation"

----------------------------------------------------------------------------
(* One day of the program and its scheduling *)

\* the question send ends, one way or the other
AskSendEnds ==
    \E outcome \in BossSendOutcomes, run_date \in Dates \cup {LastDay + 1} :
       AskSendDone(outcome, run_date)

\* the reminder's send ends
ReminderSendEnds == \E outcome \in BossSendOutcomes : ReminderSendDone(outcome)

\* The steps of the program between two midnights, with the publish job run
\* by its cron trigger and the channel send of the job succeeding: that the
\* send succeeds when the trigger fires is the proviso of the eventual
\* publication, not a property of the program.  The send of the answer
\* handler's own attempt succeeds or fails.
NextDay ==
    \/ PublishJobFires
    \/ PublishJobSendDone(TRUE)
    \/ AskStart
    \/ AskSendEnds
    \/ AskGetMeDone
    \/ \E job \in jobs, created \in BOOLEAN : ReminderJobRun(job, created)
    \/ ReminderTaskStart
    \/ ReminderSendEnds
    \/ ReminderGetMeDone
    \/ CallbackReceive
    \/ HandlerRaised
    \/ \E user \in Users, action \in CallbackActions, date_part \in CallbackDates :
            CallbackAnswered(user, action, date_part)
    \/ CallbackDenied
    \/ CallbackConfirmed
    \/ \E ok \in BOOLEAN : CallbackSendDone(ok)
    \/ \E user \in Users, command \in Commands : CommandReceive(user, command)
    \/ CommandReplied

\* The 'daily_game_message' cron job fires at SEND_TIME whatever the handlers
\* do (start_scheduler registers it once and nothing removes it), once a
\* date; the awaited calls of the jobs and of the reminder task end, so the
\* scheduler is idle when the trigger fires, and the send of the job ends.
SpecDay ==
    /\ Init
    /\ [][NextDay]_vars
    /\ WF_vars(AskSendEnds)
    /\ WF_vars(AskGetMeDone)
    /\ WF_vars(ReminderTaskStart)
    /\ WF_vars(ReminderSendEnds)
    /\ WF_vars(ReminderGetMeDone)
    /\ SF_vars(PublishJobFires)
    /\ WF_vars(PublishJobSendDone(TRUE))

\* the publish-time trigger of today has fired
PublishFired == crons.daily_game_message.last_run = today

\* C19: when today is answered before the publish-time trigger of today has
\* fired and its message is not marked sent (the answer handler's own attempt
\* did not run, is still running or failed), then, the channel send of the
\* job succeeding, the message of today is sent and message_sent of today
\* becomes true.
C19FallbackPublishes ==
    (Answered(today) /\ ~MessageSent(today) /\ ~PublishFired)
        ~> (MessageSent(today) /\ SentFor(today) >= 1)

\* today is answered, the handler of the answer ended without a message in
\* the channel, and the publish-time trigger has fired: the attempt of the job
\* is on its way
C19Witness ==
    /\ Answered(today) /\ ~MessageSent(today)
    /\ upd.pc = "idle"
    /\ channel = <<>>
    /\ PublishFired
    /\ pub.pc = "send" /\ pub.today = today

\* C20: when the reminder job armed by the question of date d fires and
\* creates its task, with the question of d sent, d unanswered and a boss
\* chat id configured, the task that starts reads d from the clock and finds
\* a reminder to send for d.
C20ReminderCarriesAskedDate ==
    [][\A job \in jobs, d \in Dates :
          ( /\ ReminderJobRun(job, TRUE)
            /\ job.id = _date_key(d)
            /\ QuestionSent(d) /\ ~Answered(d)
            /\ Truthy(BOSS_CHAT_ID) ) =>
             /\ today = d
             /\ ReminderDecision(load_vacation_history, today) = "send"]_vars

----------------------------------------------------------------------------
(* The writers of the state file *)

\* the record of key k before a step, the default record when there is none
RecordBefore(k) == IF k \in DOMAIN file THEN file[k] ELSE DefaultRecord(k)

\* the fields each writer sets
StatusFields == {"day_status", "answered", "answered_at", "answer_source"}
QuestionFields == {"question_sent", "question_sent_at"}
MessageFields == {"message_sent", "message_sent_at"}

\* the step leaves every field outside fields as the file had it
WritesOnly(fields) ==
    \A k \in DOMAIN file' :
       \A f \in DOMAIN file'[k] \ fields : file'[k][f] = RecordBefore(k)[f]

\* C21: no record leaves the file, and a step that changes the file is the
\* save of one writer and changes the fields of that writer only, every other
\* field staying as the file had it just before the step: the answer handler
\* the status fields, the question job the question fields, a publish attempt
\* the message fields.
C21NoLostUpdate ==
    [][/\ DOMAIN file \subseteq DOMAIN file'
       /\ file' # file =>
             \/ /\ upd.pc = "cb_answer" /\ upd'.pc = "cb_confirm"
                /\ WritesOnly(StatusFields)
             \/ /\ ask.pc = "send" /\ ask'.pc = "idle"
                /\ WritesOnly(QuestionFields)
             \/ /\ \/ pub.pc = "send" /\ pub'.pc = "idle"
                   \/ upd.pc = "cb_send" /\ upd'.pc = "idle"
                /\ WritesOnly(MessageFields)]_vars

\* the publish job built its text, with the hashtag, from a day off and is at
\* its send; since it loaded the file the boss has answered that today is a
\* working day
C21Witness ==
    /\ pub.pc = "send" /\ pub.today = today
    /\ pub.text.hashtag
    /\ DayStatus(today) = "work"
    /\ QuestionSent(today)

----------------------------------------------------------------------------
(* The scheduler alone: every send time, the cron jobs firing day by day *)

DigitChar(n) ==
    CASE n = 0 -> "0" [] n = 1 -> "1" [] n = 2 -> "2" [] n = 3 -> "3"
      [] n = 4 -> "4" [] n = 5 -> "5" [] n = 6 -> "6" [] n = 7 -> "7"
      [] n = 8 -> "8" [] n = 9 -> "9"

TwoDigits(n) == <<DigitChar(n \div 10), DigitChar(n % 10)>>

\* the send times "HH:MM": every hour of the day, on the hour and at half past
SendTimes ==
    {TwoDigits(h) \o <<":">> \o TwoDigits(m) : h \in 0..23, m \in {0, 30}}

\* the program before start_scheduler has run
InitSchedule ==
    /\ Configure({None}, {BossName})
    /\ SEND_TIME \in SendTimes
    /\ crons = <<>>
    /\ today = FirstDay
    /\ file = <<>>
    /\ disk = "missing"
    /\ raised = None
    /\ cache = <<>>
    /\ jobs = {}
    /\ pub = NoPublish
    /\ ask = NoTask
    /\ rem = NoTask
    /\ upd = NoUpdate
    /\ channel = <<>>

start_scheduler ==
    /\ crons = <<>>
    /\ crons' = CronJobs(SEND_TIME)
    /\ UNCHANGED <<today, BOSS_CHAT_ID, BOSS_USERNAME, SEND_TIME, raised, file, disk, cache,
                   jobs, pub, ask, rem, upd, channel>>

\* the minute of the day at which a CronTrigger(hour, minute) fires
TimeOfDay(job) == 60 * job.hour + job.minute

\* a cron job fires, once a day at its time of day, so after every job with
\* an earlier time has fired; the job function reads the date from the clock
\* (main.py:253, 296): the job that fires on a date is the job of that date
CronFires(id) ==
    /\ crons # <<>>
    /\ crons[id].last_run < today
    /\ \A other \in DOMAIN crons :
          TimeOfDay(crons[other]) < TimeOfDay(crons[id]) =>
             crons[other].last_run = today
    /\ crons' = [crons EXCEPT ![id].last_run = today]
    /\ UNCHANGED <<today, BOSS_CHAT_ID, BOSS_USERNAME, SEND_TIME, raised, file, disk, cache,
                   jobs, pub, ask, rem, upd, channel>>

\* midnight passes, every cron job having fired on the day that ends
Midnight ==
    /\ crons # <<>>
    /\ \A id \in DOMAIN crons : crons[id].last_run = today
    /\ today < LastDay
    /\ today' = today + 1
    /\ UNCHANGED <<BOSS_CHAT_ID, BOSS_USERNAME, SEND_TIME, raised, crons, file, disk, cache,
                   jobs, pub, ask, rem, upd, channel>>

NextSchedule ==
    \/ start_scheduler
    \/ \E id \in {"daily_game_message", "daily_vacation_question"} : CronFires(id)
    \/ Midnight

SpecSchedule == InitSchedule /\ [][NextSchedule]_vars

\* C22: once the cron jobs are registered the question hour is an hour of the
\* day, the question job fires three hours before the publish job on the
\* clock of one date, and whenever the publish job has fired for today the
\* question job has fired for today.
C22QuestionBeforePublish ==
    crons # <<>> =>
       /\ crons.daily_vacation_question.hour \in 0..23
       /\ TimeOfDay(crons.daily_vacation_question) + 180
             = TimeOfDay(crons.daily_game_message)
       /\ crons.daily_game_message.last_run = today =>
             crons.daily_vacation_question.last_run = today

====
